---- MODULE Spec2Model ----
(***************************************************************************)
(* A model of the library-management API: the borrow/return workflow of   *)
(* routes/borrows.js over the books and borrows tables, run by several    *)
(* concurrent requests.  One action is one `await db.execute(...)` of a   *)
(* handler together with the synchronous code that follows it up to the   *)
(* next await (Node runs that code without interleaving; the store runs   *)
(* each statement atomically, autocommit).  The requests of the workflow   *)
(* have passed auth(["liberian"]); the authenticator (middleware/auth.js), *)
(* the login handler (routes/auth.js) and the guards of the routes are     *)
(* modelled by the second specification, SpecAuth.  The list endpoints    *)
(* and their pagination (SpecList), the create, update and delete          *)
(* endpoints of students and books (SpecWrite) and the dashboard           *)
(* (SpecDash) have a specification each.                                   *)
(***************************************************************************)
EXTENDS Integers, Sequences, FiniteSets, TLC

\* ------------------------------------------------------------- bounds
NumReq == 3        \* requests of one run
MaxStock == 1      \* largest initial quantity of a book
MaxTime == 1       \* NOW() ranges over 0..MaxTime
MaxStudents == 3   \* student rows ever created (ids 1..MaxStudents)
NumWriters == 2    \* borrow and return requests that run beside the dashboard

Procs == 1..NumReq
BookIds == {1, 2}                  \* rows of the books table
ReqBookIds == {1, 2, 3}            \* book_id of a request body; 3 matches no row
StudentIds == {1}
\* :id of a return request; it may match no row.  A row NumReq exists only once
\* every request of the run has been a borrow, so no return can meet it.
BorrowIds == 1..(NumReq - 1)

VARIABLES
    books,      \* books table: id -> quantity, for the rows that exist
    borrows,    \* borrows table: borrows[i] is the row with AUTO_INCREMENT id i
    now,        \* the store's clock, NOW()
    req,        \* per request: its inputs, its position, its locals, its response
    stock,      \* each book's original stock (reference value of the invariants)
    secret,     \* process.env.JWT_SECRET ("" when unset)
    logins,     \* what clients hold: the credentials and token of each successful login
    areq,       \* the request at the authenticator or the login handler, and its outcome
    students,   \* students table: its rows, in primary-key order
    auto,       \* AUTO_INCREMENT of the students table: the id of the next row
    lreq,       \* the list request in flight: its query, its position, its locals
    wreq,       \* the create, update or delete request just served, and its response
    dash        \* the dashboard request: its position, its counts, its response

avars == <<secret, logins, areq>>
cvars == <<students, auto, lreq, wreq, dash>>
vars == <<books, borrows, now, req, stock, secret, logins, areq, students, auto, lreq, wreq, dash>>

\* ------------------------------------------------------------ responses
NoResp == [status |-> 0, field |-> "", text |-> ""]
Resp(s, f, t) == [status |-> s, field |-> f, text |-> t]
StoreError == "store error"        \* err.message of a failed db.execute

\* A request that has not arrived yet.
Idle == [op |-> "none", pc |-> "idle", student_id |-> 0, book_id |-> 0, id |-> 0,
         rows |-> <<>>, resp |-> NoResp, aborted |-> FALSE]

\* ------------------------------------------------------------ the store
\* SELECT quantity FROM books WHERE id = ?
SelectQuantity(book_id) ==
    IF book_id \in DOMAIN books THEN <<[quantity |-> books[book_id]]>> ELSE <<>>

\* INSERT INTO borrows (student_id, book_id, created_by) VALUES (?, ?, ?)
\* return_date is NULL (the empty sequence) in a new row.
InsertBorrow(student_id, book_id) ==
    Append(borrows, [student_id |-> student_id, book_id |-> book_id,
                     return_date |-> <<>>])

\* UPDATE books SET quantity = quantity + d WHERE id = ?   (no row: no change)
AddQuantity_DecrementOnly(book_id, d) ==
    IF book_id \in DOMAIN books /\ d < 0
    THEN [books EXCEPT ![book_id] = @ + d]
    ELSE books
AddQuantity(book_id, d) ==
    IF book_id \in DOMAIN books
    THEN [books EXCEPT ![book_id] = @ + d]
    ELSE books

\* SELECT * FROM borrows WHERE id = ? AND return_date IS NULL
SelectActiveBorrow_AnyRow(id) ==
    IF id \in DOMAIN borrows THEN <<borrows[id]>> ELSE <<>>
SelectActiveBorrow(id) ==
    IF id \in DOMAIN borrows /\ borrows[id].return_date = <<>>
    THEN <<borrows[id]>> ELSE <<>>

\* UPDATE borrows SET return_date = NOW() WHERE id = ?
SetReturnDate_NoRow(id) == borrows
SetReturnDate(id) ==
    IF id \in DOMAIN borrows
    THEN [borrows EXCEPT ![id].return_date = <<now>>]
    ELSE borrows

\* ------------------------------------------------------------ requests
Arrived(p) == req[p].op # "none"
InFlight(p) == Arrived(p) /\ req[p].pc # "done"
Done(p) == req[p].pc = "done"

\* Requests are numbered by arrival.
MayArrive(p) == ~Arrived(p) /\ \A q \in Procs : q < p => Arrived(q)

\* The handler of request record r answers with response x and ends.
Finish(r, x) == [r EXCEPT !.pc = "done", !.resp = x, !.rows = <<>>]
\* The catch block: the handler answers 500 with err.message.  aborted records
\* that the handler had already written to the store.
Catch(r) == [Finish(r, Resp(500, "error", StoreError))
                EXCEPT !.aborted = (r.pc \in {"b_update", "r_incr"})]

\* if (book.quantity <= 0)
OutOfStock_NegativeOnly(book) == book[1].quantity < 0
OutOfStock(book) == book[1].quantity <= 0

\* POST /api/borrows: the request arrives with its body, and
\* 1. the stock read, with the two early returns.
BorrowSelect(p) ==
    /\ MayArrive(p)
    /\ \E s \in StudentIds, b \in ReqBookIds :
         LET r == [Idle EXCEPT !.op = "borrow", !.student_id = s, !.book_id = b]
             book == SelectQuantity(b)
         IN  \/ req' = [req EXCEPT ![p] =
                         IF book = <<>>
                         THEN Finish(r, Resp(404, "message", "Book not found"))
                         ELSE IF OutOfStock(book)
                         THEN Finish(r, Resp(400, "message", "Book is out of stock"))
                         ELSE [r EXCEPT !.pc = "b_insert"]]
             \/ req' = [req EXCEPT ![p] = Catch(r)]
    /\ UNCHANGED <<books, borrows, now, stock, avars, cvars>>

\* 2. the borrow row is inserted.
BorrowInsert(p) ==
    /\ req[p].pc = "b_insert"
    /\ \/ /\ borrows' = InsertBorrow(req[p].student_id, req[p].book_id)
          /\ req' = [req EXCEPT ![p].pc = "b_update"]
       \/ /\ req' = [req EXCEPT ![p] = Catch(@)]
          /\ UNCHANGED borrows
    /\ UNCHANGED <<books, now, stock, avars, cvars>>

\* 3. the quantity is decreased by 1, and the handler answers 200.
BorrowUpdate(p) ==
    /\ req[p].pc = "b_update"
    /\ \/ /\ books' = AddQuantity(req[p].book_id, -1)
          /\ req' = [req EXCEPT ![p] = Finish(@, Resp(200, "message", "Book borrowed successfully"))]
       \/ /\ req' = [req EXCEPT ![p] = Catch(@)]
          /\ UNCHANGED books
    /\ UNCHANGED <<borrows, now, stock, avars, cvars>>

\* PUT /api/borrows/:id/return: the request arrives with its id, and the active
\* row is read; none: 400.
ReturnSelect(p) ==
    /\ MayArrive(p)
    /\ \E i \in BorrowIds :
         LET r == [Idle EXCEPT !.op = "return", !.id = i]
             rows == SelectActiveBorrow(i)
         IN  \/ req' = [req EXCEPT ![p] =
                         IF Len(rows) = 0
                         THEN Finish(r, Resp(400, "message",
                                             "Borrow record not found or already returned"))
                         ELSE [r EXCEPT !.pc = "r_update", !.rows = rows]]
             \/ req' = [req EXCEPT ![p] = Catch(r)]
    /\ UNCHANGED <<books, borrows, now, stock, avars, cvars>>

\* return_date = NOW() on the row.
ReturnUpdate(p) ==
    /\ req[p].pc = "r_update"
    /\ \/ /\ borrows' = SetReturnDate(req[p].id)
          /\ req' = [req EXCEPT ![p].pc = "r_incr"]
       \/ /\ req' = [req EXCEPT ![p] = Catch(@)]
          /\ UNCHANGED borrows
    /\ UNCHANGED <<books, now, stock, avars, cvars>>

\* The referenced book's quantity is increased by 1, and the handler answers 200.
ReturnIncrement(p) ==
    /\ req[p].pc = "r_incr"
    /\ \/ /\ books' = AddQuantity(req[p].rows[1].book_id, 1)
          /\ req' = [req EXCEPT ![p] = Finish(@, Resp(200, "message", "Book returned successfully"))]
       \/ /\ req' = [req EXCEPT ![p] = Catch(@)]
          /\ UNCHANGED books
    /\ UNCHANGED <<borrows, now, stock, avars, cvars>>

\* Time passes at the store.  Only the equality of two timestamps is ever
\* observed, so the clock is advanced only once its current reading is stored
\* in some row (any other advance leads to a state equal up to renaming).
Tick ==
    /\ now < MaxTime
    /\ \E i \in DOMAIN borrows : borrows[i].return_date = <<now>>
    /\ now' = now + 1
    /\ UNCHANGED <<books, borrows, req, stock, avars, cvars>>


\* ------------------------------------------------------------ tokens
\* jsonwebtoken, HS256: a token is its payload with a MAC of the payload under the
\* signing key; the MAC is modelled as the pair it is a function of.
Mac(key, payload) == [key |-> key, id |-> payload.id, role |-> payload.role]
NoPayload == [id |-> 0, role |-> ""]
NoJwt == [payload |-> NoPayload, mac |-> Mac("", NoPayload)]

\* jwt.sign({ id, role }, process.env.JWT_SECRET); it throws when the key is unset.
JwtSign(payload, key) == [payload |-> payload, mac |-> Mac(key, payload)]

\* An Authorization header is a string: a sequence of atoms, each a space, a word
\* without spaces, or a token.
SP == [t |-> "sp", w |-> "", jwt |-> NoJwt]
W(w) == [t |-> "word", w |-> w, jwt |-> NoJwt]
J(tok) == [t |-> "jwt", w |-> "", jwt |-> tok]
NoHeader == [present |-> FALSE, value |-> <<>>]
Header(v) == [present |-> TRUE, value |-> v]

\* String.prototype.split(" "): the segments between single spaces.
RECURSIVE Split(_)
Split(s) ==
    IF \A i \in DOMAIN s : s[i] # SP
    THEN <<s>>
    ELSE LET i == CHOOSE j \in DOMAIN s : s[j] = SP /\ \A k \in 1..(j - 1) : s[k] # SP
         IN  <<SubSeq(s, 1, i - 1)>> \o Split(SubSeq(s, i + 1, Len(s)))

\* jwt.verify(token, secret, cb): err.message ("" when none) and the payload.
JwtVerify_NoSignatureCheck(token, key) ==
    IF Len(token) # 1 \/ token[1].t # "jwt"
    THEN [err |-> "jwt malformed", user |-> NoPayload]
    ELSE [err |-> "", user |-> token[1].jwt.payload]
JwtVerify(token, key) ==
    IF Len(token) # 1 \/ token[1].t # "jwt"
    THEN [err |-> "jwt malformed", user |-> NoPayload]
    ELSE IF key = ""
    THEN [err |-> "secret or public key must be provided", user |-> NoPayload]
    ELSE IF token[1].jwt.mac # Mac(key, token[1].jwt.payload)
    THEN [err |-> "invalid signature", user |-> NoPayload]
    ELSE [err |-> "", user |-> token[1].jwt.payload]

\* ------------------------------------------------------------ authenticator
\* A response of the authenticator or of the login handler; role is the role the
\* message names, required the roles listed, token the token issued.
AResp(status, message, error, role, required, token) ==
    [status |-> status, message |-> message, error |-> error, role |-> role,
     required |-> required, token |-> token]
NoAResp == AResp(0, "", "", "", <<>>, <<>>)

Includes(roles, role) == \E i \in DOMAIN roles : roles[i] = role

\* module.exports = (roles = []) => (req, res, next) => ...: the response sent
\* (status 0: none), whether next() was called, and req.user (<<>>: not set).
AuthReject(r) == [resp |-> r, next |-> FALSE, user |-> <<>>]
auth_NoRoleCheck(roles, header, key) ==
    IF ~header.present \/ header.value = <<>>
    THEN AuthReject(AResp(401, "No Authorization header", "", "", <<>>, <<>>))
    ELSE LET parts == Split(header.value) IN
         IF Len(parts) < 2 \/ parts[2] = <<>>
         THEN AuthReject(AResp(401, "No token provided", "", "", <<>>, <<>>))
         ELSE LET v == JwtVerify(parts[2], key) IN
              IF v.err # ""
              THEN AuthReject(AResp(403, "Invalid token", v.err, "", <<>>, <<>>))
              ELSE [resp |-> NoAResp, next |-> TRUE, user |-> <<v.user>>]
auth(roles, header, key) ==
    IF ~header.present \/ header.value = <<>>
    THEN AuthReject(AResp(401, "No Authorization header", "", "", <<>>, <<>>))
    ELSE LET parts == Split(header.value) IN
         IF Len(parts) < 2 \/ parts[2] = <<>>
         THEN AuthReject(AResp(401, "No token provided", "", "", <<>>, <<>>))
         ELSE LET v == JwtVerify(parts[2], key) IN
              IF v.err # ""
              THEN AuthReject(AResp(403, "Invalid token", v.err, "", <<>>, <<>>))
              ELSE IF Len(roles) # 0 /\ ~Includes(roles, v.user.role)
              THEN AuthReject(AResp(403, "Access denied for role", "", v.user.role,
                                    roles, <<>>))
              ELSE [resp |-> NoAResp, next |-> TRUE, user |-> <<v.user>>]

\* ------------------------------------------------------------ routes
\* The routes of each router: method, path and guard.  guard is <<>> for a route
\* with no middleware and <<roles>> for one behind auth(roles).
Route(router, method, path, guard) ==
    [router |-> router, method |-> method, path |-> path, guard |-> guard]
Liberian == << <<"liberian">> >>
Open == <<>>

LoginRoutes == {Route("auth", "POST", "/login", Open)}
StudentsRoutes ==
    {Route("students", m[1], m[2], Liberian) :
        m \in {<<"POST", "">>, <<"GET", "">>, <<"GET", "/search">>, <<"GET", "/:id">>,
               <<"PUT", "/:id">>, <<"DELETE", "/:id">>}}
BooksRoutes ==
    {Route("books", m[1], m[2], Liberian) :
        m \in {<<"POST", "">>, <<"GET", "">>, <<"GET", "/:id">>, <<"PUT", "/:id">>,
               <<"DELETE", "/:id">>}}
\* The earlier books router: create and list only.
BooksRoutesBasic ==
    {Route("books (basic)", m[1], m[2], Liberian) :
        m \in {<<"POST", "">>, <<"GET", "">>}}
AuthorsRoutes == {Route("authors", "GET", "/", Liberian)}
\* The other authors router: router.get("/", async (req, res) => ...), no middleware.
AuthorsRoutesOpen == {Route("authors (no middleware)", "GET", "/", Open)}
CategoriesRoutes == {Route("categories", "GET", "/", Liberian)}
BorrowsRoutes ==
    {Route("borrows", m[1], m[2], Liberian) :
        m \in {<<"POST", "/">>, <<"PUT", "/:id/return">>, <<"GET", "/">>}}
DashboardRoutes == {Route("dashboard", "GET", "/", Liberian)}

\* Every endpoint other than POST /api/auth/login.
ProtectedRoutes ==
    StudentsRoutes \cup BooksRoutes \cup BooksRoutesBasic \cup AuthorsRoutes
        \cup AuthorsRoutesOpen \cup CategoriesRoutes \cup BorrowsRoutes
        \cup DashboardRoutes
NoRoute == Route("", "", "", Open)

\* ------------------------------------------------------------ users
\* bcryptjs: the stored hash of a password, and compare(password, hash).
BcryptHash(password) == <<"bcrypt", password>>
BcryptCompare(password, hash) == hash = BcryptHash(password)

\* The users table (created out of band, read-only here).
Users ==
    [u \in {"liberian1", "admin1"} |->
        IF u = "liberian1"
        THEN [id |-> 1, password |-> BcryptHash("password123"), role |-> "liberian"]
        ELSE [id |-> 2, password |-> BcryptHash("admin456"), role |-> "admin"]]

Usernames == {"liberian1", "admin1", "nobody"}
\* req.body.password: a string, or absent.
NoPassword == [present |-> FALSE, value |-> ""]
Password(v) == [present |-> TRUE, value |-> v]
Passwords == {NoPassword} \cup {Password(v) : v \in {"password123", "admin456", "wrong"}}

Secrets == {"", "k1", "k2"}
RoleSets == {<<>>, <<"liberian">>, <<"admin">>, <<"liberian", "admin">>}

\* ------------------------------------------------------------ the request
NoAuth == [resp |-> NoAResp, next |-> FALSE, user |-> <<>>]
NoAReq == [kind |-> "none", route |-> NoRoute, roles |-> <<>>, header |-> NoHeader,
           username |-> "", password |-> NoPassword, stage |-> "none",
           mw |-> NoAuth, resp |-> NoAResp, queries |-> 0]

\* The tokens a client may present: those issued by a login, those with the
\* payload altered and the MAC kept, and one signed with a key of the client's own.
Tampered(tok) == [tok EXCEPT !.payload = [id |-> 1, role |-> "liberian"]]
PresentedTokens ==
    {l.token : l \in logins} \cup {Tampered(l.token) : l \in logins}
        \cup {JwtSign([id |-> 1, role |-> "liberian"], "k0")}

\* The Authorization headers of the requests.
Headers ==
    {NoHeader, Header(<<>>), Header(<<W("Bearer")>>), Header(<<W("Bearer"), SP>>),
     Header(<<W("Bearer"), SP, W("junk")>>)}
    \cup UNION {{Header(<<W("Bearer"), SP, J(t)>>),
                 Header(<<W("Basic"), SP, J(t)>>),
                 Header(<<W("Bearer"), SP, SP, J(t)>>),
                 Header(<<J(t)>>),
                 Header(<<SP, J(t)>>),
                 Header(<<W("Bearer"), SP, J(t), SP, W("x")>>),
                 Header(<<W("Bearer"), SP, J(t), W("x")>>)} : t \in PresentedTokens}

\* One request at a time is followed from its arrival to its response.
Free == areq.kind = "none"

\* auth(roles) applied to a request with the given header.
Authenticate(roles, header) ==
    /\ Free
    /\ areq' = [NoAReq EXCEPT !.kind = "auth", !.roles = roles, !.header = header,
                              !.stage = "done",
                              !.mw = auth(roles, header, secret),
                              !.resp = auth(roles, header, secret).resp]
    /\ UNCHANGED <<secret, logins>>

\* A request to a route: its middleware, if it has one, answers or calls next(),
\* and then the handler runs.
Call(route, header) ==
    /\ Free
    /\ areq' = IF route.guard = <<>>
               THEN [NoAReq EXCEPT !.kind = "route", !.route = route,
                                   !.header = header, !.stage = "handler"]
               ELSE LET a == auth(route.guard[1], header, secret) IN
                    [NoAReq EXCEPT !.kind = "route", !.route = route,
                                   !.roles = route.guard[1], !.header = header,
                                   !.stage = IF a.next THEN "handler" ELSE "done",
                                   !.mw = a, !.resp = a.resp]
    /\ UNCHANGED <<secret, logins>>

\* The handler of the route: it queries the store and answers (200 stands for the
\* handler's own answer), or the query fails and it answers with the error.
Handle ==
    /\ areq.stage = "handler"
    /\ \E ok \in BOOLEAN :
         areq' = [areq EXCEPT !.stage = "done", !.queries = @ + 1,
                              !.resp = IF ok
                                       THEN AResp(200, "", "", "", <<>>, <<>>)
                                       ELSE AResp(500, "", StoreError, "", <<>>, <<>>)]
    /\ UNCHANGED <<secret, logins>>

\* router.post("/login"): the user row is read, the password compared with the
\* stored hash, and a token of { id, role } signed with the secret.
LoginOutcome_AnyPassword(username, password, ok) ==
    IF ~ok
    THEN AResp(500, "", StoreError, "", <<>>, <<>>)
    ELSE IF username \notin DOMAIN Users
    THEN AResp(401, "Invalid credentials", "", "", <<>>, <<>>)
    ELSE IF ~password.present
    THEN AResp(500, "", "Illegal arguments: undefined, string", "", <<>>, <<>>)
    ELSE IF secret = ""
    THEN AResp(500, "", "secretOrPrivateKey must have a value", "", <<>>, <<>>)
    ELSE AResp(200, "", "", "", <<>>,
               <<JwtSign([id |-> Users[username].id, role |-> Users[username].role],
                         secret)>>)
LoginOutcome(username, password, ok) ==
    IF ~ok
    THEN AResp(500, "", StoreError, "", <<>>, <<>>)
    ELSE IF username \notin DOMAIN Users
    THEN AResp(401, "Invalid credentials", "", "", <<>>, <<>>)
    ELSE IF ~password.present
    THEN AResp(500, "", "Illegal arguments: undefined, string", "", <<>>, <<>>)
    ELSE IF ~BcryptCompare(password.value, Users[username].password)
    THEN AResp(401, "Invalid credentials", "", "", <<>>, <<>>)
    ELSE IF secret = ""
    THEN AResp(500, "", "secretOrPrivateKey must have a value", "", <<>>, <<>>)
    ELSE AResp(200, "", "", "", <<>>,
               <<JwtSign([id |-> Users[username].id, role |-> Users[username].role],
                         secret)>>)

Login(username, password) ==
    /\ Free
    /\ \E ok \in BOOLEAN :
         LET r == LoginOutcome(username, password, ok) IN
         /\ areq' = [NoAReq EXCEPT !.kind = "login", !.username = username,
                                   !.password = password, !.stage = "done",
                                   !.resp = r, !.queries = 1]
         /\ logins' = IF r.token = <<>>
                      THEN logins
                      ELSE logins \cup {[username |-> username, password |-> password,
                                         token |-> r.token[1]]}
    /\ UNCHANGED secret

\* The response has been sent; the request is over.
Reply ==
    /\ areq.stage = "done"
    /\ areq' = NoAReq
    /\ UNCHANGED <<secret, logins>>

\* The secret is rotated: the process restarts with another JWT_SECRET.
Rotate ==
    /\ \E k \in Secrets \ {secret} : secret' = k
    /\ areq' = NoAReq
    /\ UNCHANGED logins

\* ------------------------------------------------------------ query parameters
\* A query parameter is absent, or a string: a sequence of characters.
NoParam == [present |-> FALSE, value |-> <<>>]
Param(v) == [present |-> TRUE, value |-> v]
Digit == ("0" :> 0) @@ ("1" :> 1) @@ ("2" :> 2)
NaN == <<>>

RECURSIVE TrimStart(_)
TrimStart(s) == IF s # <<>> /\ s[1] = " " THEN TrimStart(Tail(s)) ELSE s
RECURSIVE LeadingDigits(_)
LeadingDigits(s) ==
    IF s = <<>> \/ s[1] \notin DOMAIN Digit THEN <<>>
    ELSE <<s[1]>> \o LeadingDigits(Tail(s))
RECURSIVE Decimal(_)
Decimal(d) ==
    IF d = <<>> THEN 0
    ELSE 10 * Decimal(SubSeq(d, 1, Len(d) - 1)) + Digit[d[Len(d)]]

\* parseInt(x): leading white space is skipped, then an optional sign and the
\* longest run of decimal digits are read and what follows is ignored; the result
\* is NaN when there is no digit.  parseInt(undefined) reads the string
\* "undefined", which has none.  (A 0x prefix would select base 16; the
\* parameters considered have none.)
ParseInt(x) ==
    LET s == TrimStart(x.value)
        neg == s # <<>> /\ s[1] = "-"
        signed == s # <<>> /\ s[1] \in {"-", "+"}
        d == LeadingDigits(IF signed THEN Tail(s) ELSE s)
    IN  IF ~x.present \/ d = <<>> THEN NaN
        ELSE <<(IF neg THEN -1 ELSE 1) * Decimal(d)>>

\* n || d: d replaces every falsy n, which for a number is NaN and 0 (and -0).
OrDefault_Positive(n, d) == IF n = NaN \/ n[1] <= 0 THEN d ELSE n[1]
OrDefault(n, d) == IF n = NaN \/ n[1] = 0 THEN d ELSE n[1]

\* Math.ceil(a / b) for b # 0 (limit is never 0: see OrDefault).
Ceil(a, b) ==
    IF b > 0 THEN -((-a) \div b) ELSE -(a \div (-b))

\* const page = parseInt(req.query.page) || 1;
\* const limit = parseInt(req.query.limit) || 10;
\* const offset = (page - 1) * limit;
Pagination(query) ==
    LET page == OrDefault(ParseInt(query.page), 1)
        limit == OrDefault(ParseInt(query.limit), 10)
    IN  [page |-> page, limit |-> limit, offset |-> (page - 1) * limit]

\* ------------------------------------------------------------ the catalogue
\* A response of the catalogue endpoints: nothing (none), { field: text }
\* (error, message), the paginated object (object) or a bare array (array).
NoLResp == [status |-> 0, kind |-> "none", field |-> "", text |-> "",
            page |-> <<>>, rows |-> <<>>]
LResp(status, field, text) ==
    [NoLResp EXCEPT !.status = status, !.field = field, !.text = text,
                    !.kind = IF field = "error" THEN "error" ELSE "message"]
\* res.json({ currentPage, limit, totalPages, total..., <rows> })
PageResp(local, rows) ==
    [NoLResp EXCEPT !.status = 200, !.kind = "object", !.rows = rows,
                    !.page = <<[currentPage |-> local.page, limit |-> local.limit,
                                totalPages |-> local.totalPages,
                                total |-> local.total]>>]
\* res.json(rows)
ArrayResp(rows) == [NoLResp EXCEPT !.status = 200, !.kind = "array", !.rows = rows]
\* What the framework does with a handler whose promise rejects: Express 4
\* ignores the promise and nothing is ever sent; Express 5 passes the error to
\* its default error handler, which sends a 500 page that is not JSON.
Unanswered == {NoLResp, [NoLResp EXCEPT !.status = 500, !.kind = "html"]}

NoQuery == [page |-> NoParam, limit |-> NoParam]
NoLReq == [op |-> "none", endpoint |-> "", query |-> NoQuery, pc |-> "idle",
           local |-> <<>>, resp |-> NoLResp, failed |-> FALSE]

\* The elements of a finite set of integers in increasing order.
RECURSIVE Ascending(_)
Ascending(S) ==
    IF S = {} THEN <<>>
    ELSE LET m == CHOOSE x \in S : \A y \in S : x <= y
         IN  <<m>> \o Ascending(S \ {m})
RECURSIVE Reverse(_)
Reverse(s) == IF s = <<>> THEN <<>> ELSE Reverse(Tail(s)) \o <<Head(s)>>

\* SELECT COUNT(*) AS total FROM <table>
Count(endpoint) ==
    CASE endpoint = "students" -> Len(students)
      [] endpoint = "books" -> Cardinality(DOMAIN books)
      [] endpoint = "borrows" -> Len(borrows)

\* The rows the page query of each list ranges over, in the order the store
\* yields them: students and books by primary key; borrows joined to their
\* student and their book (a row that lacks either is dropped), latest first.
StudentRows == students
BookRows == [i \in 1..Cardinality(DOMAIN books) |->
                LET id == Ascending(DOMAIN books)[i]
                IN  [id |-> id, quantity |-> books[id]]]
JoinedBorrows ==
    SelectSeq([i \in DOMAIN borrows |->
                  [id |-> i, student_id |-> borrows[i].student_id,
                   book_id |-> borrows[i].book_id,
                   return_date |-> borrows[i].return_date]],
              LAMBDA r : /\ \E k \in DOMAIN students : students[k].id = r.student_id
                         /\ r.book_id \in DOMAIN books)
BorrowRows == Reverse(JoinedBorrows)
Rows(endpoint) ==
    CASE endpoint = "students" -> StudentRows
      [] endpoint = "books" -> BookRows
      [] endpoint = "borrows" -> BorrowRows

\* ... LIMIT ${limit} OFFSET ${offset}: the two numbers are written into the
\* statement, and the store rejects a statement with a negative one.
BadLimit(limit, offset) == limit < 0 \/ offset < 0
LimitOffset_FromStart(rows, limit, offset) ==
    SubSeq(rows, 1, IF limit < Len(rows) THEN limit ELSE Len(rows))
LimitOffset(rows, limit, offset) ==
    SubSeq(rows, offset + 1,
           IF offset + limit < Len(rows) THEN offset + limit ELSE Len(rows))

\* ------------------------------------------------------------ list endpoints
ListEndpoints == {"students", "books", "borrows"}
QueryValues ==
    {NoParam, Param(<<"a">>), Param(<<"0">>), Param(<<"2">>), Param(<<"-", "1">>),
     Param(<<"2", "a">>)}

\* One list request and one write request are followed at a time; a write may
\* run between the two queries of a list.  A response is forgotten (Deliver)
\* before the next step: nothing reads it.
NoWReq == [op |-> "none", table |-> "", id |-> "", body |-> <<>>, resp |-> NoLResp,
           failed |-> FALSE]
Settled == wreq.op = "none" /\ lreq.pc \in {"idle", "page"}

\* The handler's promise rejects: no handler code sends a response.
Reject(r, x, failed) == [r EXCEPT !.pc = "rejected", !.resp = x, !.failed = failed]
\* The catch block of the page query: the books and borrows lists answer 500;
\* the students list names its exception `error` and logs `err`, which is not
\* defined: the catch block throws in turn, and the promise rejects.
ListCatch(r, failed) ==
    IF r.endpoint = "students"
    THEN {Reject(r, x, failed) : x \in Unanswered}
    ELSE {[r EXCEPT !.pc = "done", !.failed = failed,
                    !.resp = LResp(500, "error",
                                   IF r.endpoint = "books"
                                   THEN "Failed to fetch books"
                                   ELSE "Failed to fetch borrows")]}

\* GET /api/students, /api/books, /api/borrows: the request arrives, and
\* 1. page, limit and offset are computed, and the count query runs, outside
\*    any try block.
ListCount(endpoint, query) ==
    /\ Settled /\ lreq.pc = "idle"
    /\ LET r == [NoLReq EXCEPT !.op = "list", !.endpoint = endpoint, !.query = query]
           p == Pagination(query)
           total == Count(endpoint)
       IN  \/ lreq' = [r EXCEPT !.pc = "page",
                                !.local = <<[page |-> p.page, limit |-> p.limit,
                                             offset |-> p.offset, total |-> total,
                                             totalPages |-> Ceil(total, p.limit)]>>]
           \/ \E x \in Unanswered : lreq' = Reject(r, x, TRUE)
    /\ UNCHANGED <<books, students, auto, wreq>>

\* 2. the page query runs, inside a try block, and the handler answers.
ListPage ==
    /\ Settled /\ lreq.pc = "page"
    /\ LET l == lreq.local[1] IN
       \/ /\ ~BadLimit(l.limit, l.offset)
          /\ lreq' = [lreq EXCEPT !.pc = "done",
                        !.resp = PageResp(l, LimitOffset(Rows(lreq.endpoint),
                                                         l.limit, l.offset))]
       \/ /\ BadLimit(l.limit, l.offset)
          /\ lreq' \in ListCatch(lreq, FALSE)
       \/ lreq' \in ListCatch(lreq, TRUE)
    /\ UNCHANGED <<books, students, auto, wreq>>

\* GET /api/books as src/routes/books.js has it: one query, outside any try
\* block, and its rows are the response; page and limit are not read.
BooksListBasic(query) ==
    /\ Settled /\ lreq.pc = "idle"
    /\ LET r == [NoLReq EXCEPT !.op = "list", !.endpoint = "books_basic",
                               !.query = query]
       IN  \/ lreq' = [r EXCEPT !.pc = "done", !.resp = ArrayResp(BookRows)]
           \/ \E x \in Unanswered : lreq' = Reject(r, x, TRUE)
    /\ UNCHANGED <<books, students, auto, wreq>>

\* The responses are delivered: the requests are followed no further.
Deliver ==
    /\ ~Settled
    /\ lreq' = IF lreq.pc \in {"done", "rejected"} THEN NoLReq ELSE lreq
    /\ wreq' = NoWReq
    /\ UNCHANGED <<books, students, auto>>

\* ------------------------------------------------------------ statements as text
\* A string is a sequence of tokens: words, and the characters SQL gives a
\* meaning to (the quote ', the comma, =, and the comment mark "-- ").
\* The :id of a path is a string too; the requests considered carry a numeral.
Number == ("1" :> 1) @@ ("2" :> 2) @@ ("9" :> 9)
PathIds == DOMAIN Number

\* `UPDATE students SET full_name = '${full_name}', id_card = '${id_card}',
\*  class = '${student_class}' WHERE id = ${studentId}`
UpdateStudentText(studentId, body) ==
    <<"UPDATE", "students", "SET", "full_name", "=", "'">> \o body.full_name
      \o <<"'", ",", "id_card", "=", "'">> \o body.id_card
      \o <<"'", ",", "class", "=", "'">> \o body.student_class
      \o <<"'", "WHERE", "id", "=", studentId>>

\* The store reads the statement.  A string literal runs from a quote to the
\* next quote that is not doubled ('' stands for a quote inside a literal).
Unparsed == [ok |-> FALSE, value |-> <<>>, rest |-> <<>>]
RECURSIVE Literal(_, _)
Literal(t, acc) ==
    IF t = <<>> THEN Unparsed
    ELSE IF t[1] # "'" THEN Literal(Tail(t), acc \o <<t[1]>>)
    ELSE IF Len(t) >= 2 /\ t[2] = "'" THEN Literal(Tail(Tail(t)), acc \o <<"'">>)
    ELSE [ok |-> TRUE, value |-> acc, rest |-> Tail(t)]

\* SET column = 'literal' [, column = 'literal']...: the value given to each
\* column (none: <<>>), and the text after the list.
Columns == {"full_name", "id_card", "class"}
RECURSIVE Assignments(_, _)
Assignments(t, set) ==
    IF Len(t) < 3 \/ t[1] \notin Columns \/ t[2] # "=" \/ t[3] # "'"
    THEN [ok |-> FALSE, set |-> set, rest |-> <<>>]
    ELSE LET lit == Literal(SubSeq(t, 4, Len(t)), <<>>)
             next == [set EXCEPT ![t[1]] = <<lit.value>>]
         IN  IF ~lit.ok THEN [ok |-> FALSE, set |-> set, rest |-> <<>>]
             ELSE IF lit.rest # <<>> /\ lit.rest[1] = ","
             THEN Assignments(Tail(lit.rest), next)
             ELSE [ok |-> TRUE, set |-> next, rest |-> lit.rest]

\* [WHERE id = <numeral>] [-- comment]: the ids selected (all: no WHERE clause).
Where(t) ==
    IF t = <<>> \/ t[1] = "--"
    THEN [ok |-> TRUE, all |-> TRUE, id |-> 0]
    ELSE IF /\ Len(t) >= 4
            /\ t[1] = "WHERE" /\ t[2] = "id" /\ t[3] = "=" /\ t[4] \in DOMAIN Number
            /\ (Len(t) = 4 \/ t[5] = "--")
    THEN [ok |-> TRUE, all |-> FALSE, id |-> Number[t[4]]]
    ELSE [ok |-> FALSE, all |-> FALSE, id |-> 0]

\* db.execute(text) of an UPDATE students statement: whether the store accepts
\* it, the table after it, and affectedRows (the rows the WHERE clause matches).
ExecuteUpdateStudent(text) ==
    LET head == Len(text) >= 3 /\ SubSeq(text, 1, 3) = <<"UPDATE", "students", "SET">>
        a == Assignments(SubSeq(text, 4, Len(text)), [c \in Columns |-> <<>>])
        w == Where(a.rest)
        hit(row) == w.all \/ row.id = w.id
        new(row) == [id |-> row.id,
                     full_name |-> IF a.set["full_name"] = <<>> THEN row.full_name
                                   ELSE a.set["full_name"][1],
                     id_card |-> IF a.set["id_card"] = <<>> THEN row.id_card
                                 ELSE a.set["id_card"][1],
                     class |-> IF a.set["class"] = <<>> THEN row.class
                               ELSE a.set["class"][1]]
    IN  IF ~(head /\ a.ok /\ w.ok)
        THEN [ok |-> FALSE, table |-> students, affectedRows |-> 0]
        ELSE [ok |-> TRUE,
              table |-> [i \in DOMAIN students |->
                            IF hit(students[i]) THEN new(students[i]) ELSE students[i]],
              affectedRows |-> Cardinality({i \in DOMAIN students : hit(students[i])})]

\* ------------------------------------------------------------ create, update, delete
\* Bodies of the student requests: a create names Ann; an update gives one of
\* three names, of which the second and the third hold a quote.
StudentBody(full_name) ==
    [full_name |-> full_name, id_card |-> <<"ID1">>, student_class |-> <<"A">>]
CreateBodies == {StudentBody(<<"Ann">>)}
UpdateBodies ==
    {StudentBody(n) : n \in {<<"Bob">>, <<"O", "'", "Brien">>,
                             <<"x", "'", "WHERE", "id", "=", "1", "--">>}}
\* The students table holds Ann before the first request.
FirstStudent == [id |-> 1, full_name |-> <<"Ann">>, id_card |-> <<"ID1">>,
                 class |-> <<"A">>]
Quantities == {0, 1}

\* The write request just served.
Written(op, table, id, body, resp, failed) ==
    [op |-> op, table |-> table, id |-> id, body |-> body, resp |-> resp,
     failed |-> failed]

\* POST /api/students: INSERT INTO students (full_name, id_card, class,
\* created_by) VALUES (?, ?, ?, ?); the values are bound, not written into the
\* statement.
StudentCreate(body) ==
    /\ Settled
    /\ auto <= MaxStudents
    /\ \/ /\ students' = Append(students,
                                [id |-> auto, full_name |-> body.full_name,
                                 id_card |-> body.id_card,
                                 class |-> body.student_class])
          /\ auto' = auto + 1
          /\ wreq' = Written("create", "students", "", <<body>>,
                             LResp(201, "message", "Student created"), FALSE)
       \/ /\ UNCHANGED <<students, auto>>
          /\ wreq' = Written("create", "students", "", <<body>>,
                             LResp(400, "error", StoreError), TRUE)
    /\ UNCHANGED <<books, lreq>>

\* PUT /api/students/:id: the statement is built from the body and the path, and
\* the store executes the text.
StudentUpdate(studentId, body) ==
    /\ Settled
    /\ LET result == ExecuteUpdateStudent(UpdateStudentText(studentId, body)) IN
       \* the store executes the statement, or it rejects the text, or it fails
       \/ /\ result.ok
          /\ students' = result.table
          /\ wreq' = Written("update", "students", studentId, <<body>>,
                             IF result.affectedRows = 0
                             THEN LResp(404, "error", "Student not found")
                             ELSE LResp(200, "message", "Student updated successfully"),
                             FALSE)
       \/ /\ UNCHANGED students
          /\ wreq' = Written("update", "students", studentId, <<body>>,
                             LResp(500, "error", "Failed to update student"),
                             result.ok)
    /\ UNCHANGED <<books, auto, lreq>>

\* DELETE FROM students WHERE id = ?
DeleteStudent(id) == SelectSeq(students, LAMBDA row : row.id # id)

\* DELETE /api/students/:id
StudentDelete(studentId) ==
    /\ Settled
    /\ LET table == DeleteStudent(Number[studentId])
           affectedRows == Len(students) - Len(table)
       IN  \/ /\ students' = table
              /\ wreq' = Written("delete", "students", studentId, <<>>,
                                 IF affectedRows = 0
                                 THEN LResp(404, "error", "Student not found")
                                 ELSE LResp(200, "message", "Student deleted successfully"),
                                 FALSE)
           \/ /\ UNCHANGED students
              /\ wreq' = Written("delete", "students", studentId, <<>>,
                                 LResp(500, "error", "Failed to delete student"), TRUE)
    /\ UNCHANGED <<books, auto, lreq>>

\* UPDATE books SET title = ?, description = ?, author_id = ?, quantity = ?,
\* category_id = ? WHERE id = ?   (of a book row, the model keeps the quantity)
UpdateBook(id, quantity) ==
    IF id \in DOMAIN books THEN [books EXCEPT ![id] = quantity] ELSE books
\* DELETE FROM books WHERE id = ?
DeleteBook(id) == [b \in DOMAIN books \ {id} |-> books[b]]

\* PUT /api/books/:id
BookUpdate(bookId, quantity) ==
    /\ Settled
    /\ LET id == Number[bookId]
           affectedRows == IF id \in DOMAIN books THEN 1 ELSE 0
       IN  \/ /\ books' = UpdateBook(id, quantity)
              /\ wreq' = Written("update", "books", bookId, <<[quantity |-> quantity]>>,
                                 IF affectedRows = 0
                                 THEN LResp(404, "error", "Book not found")
                                 ELSE LResp(200, "message", "Book updated successfully"),
                                 FALSE)
           \/ /\ UNCHANGED books
              /\ wreq' = Written("update", "books", bookId, <<[quantity |-> quantity]>>,
                                 LResp(400, "error", StoreError), TRUE)
    /\ UNCHANGED <<students, auto, lreq>>

\* DELETE /api/books/:id
BookDelete(bookId) ==
    /\ Settled
    /\ LET id == Number[bookId]
           affectedRows == IF id \in DOMAIN books THEN 1 ELSE 0
       IN  \/ /\ books' = DeleteBook(id)
              /\ wreq' = Written("delete", "books", bookId, <<>>,
                                 IF affectedRows = 0
                                 THEN LResp(404, "error", "Book not found")
                                 ELSE LResp(200, "message", "Book deleted successfully"),
                                 FALSE)
           \/ /\ UNCHANGED books
              /\ wreq' = Written("delete", "books", bookId, <<>>,
                                 LResp(500, "error", "Failed to delete book"), TRUE)
    /\ UNCHANGED <<students, auto, lreq>>

\* ------------------------------------------------------------ dashboard
\* The dashboard request: the counts read so far, in the order of the handler
\* (total_books, total_students, total_borrows, borrowed_not_returned,
\* returned), and the response.  seen holds the tables as the first query found
\* them, while the request runs; quiet tells that every later query found them
\* so.
NoDash == [counts |-> <<>>, status |-> 0, error |-> "", seen |-> <<>>,
           quiet |-> TRUE]

\* SELECT COUNT(*) ... FROM borrows WHERE return_date IS NOT NULL
CountReturned_All == Len(borrows)
CountReturned == Cardinality({i \in DOMAIN borrows : borrows[i].return_date # <<>>})
\* The k-th query of the handler.
DashboardQuery(k) ==
    CASE k = 1 -> Cardinality(DOMAIN books)
      [] k = 2 -> Len(students)
      [] k = 3 -> Len(borrows)
      [] k = 4 -> Cardinality({i \in DOMAIN borrows : borrows[i].return_date = <<>>})
      [] k = 5 -> CountReturned

\* GET /api/dashboard: the next of the five count queries runs (the request
\* arrives with the first); after the fifth the handler answers with the counts,
\* and a query that fails is answered 500 with err.message.
DashboardCount ==
    /\ dash.status = 0
    /\ LET k == Len(dash.counts) + 1
           tables == <<[books |-> books, borrows |-> borrows, students |-> students]>>
           quiet == dash.quiet /\ (k = 1 \/ dash.seen = tables)
       IN  \/ dash' = [counts |-> Append(dash.counts, DashboardQuery(k)),
                       status |-> IF k = 5 THEN 200 ELSE 0,
                       error |-> "",
                       seen |-> IF k = 5 THEN <<>>
                                ELSE IF k = 1 THEN tables ELSE dash.seen,
                       quiet |-> quiet]
           \/ dash' = [counts |-> dash.counts, status |-> 500, error |-> StoreError,
                       seen |-> <<>>, quiet |-> quiet]
    /\ UNCHANGED <<books, borrows, now, req, stock, avars, students, auto, lreq, wreq>>

\* ------------------------------------------------------------ specifications
\* The two books are interchangeable, so the initial stocks are taken in order.
Init ==
    /\ books \in {f \in [BookIds -> 0..MaxStock] : f[1] <= f[2]}
    /\ borrows = <<>>
    /\ now = 0
    /\ req = [p \in Procs |-> Idle]
    /\ stock = books
    /\ secret = "k1"
    /\ logins = {}
    /\ areq = NoAReq
    /\ students = <<FirstStudent>>
    /\ auto = 2
    /\ lreq = NoLReq
    /\ wreq = NoWReq
    /\ dash = NoDash

Next ==
    \/ \E p \in Procs : BorrowSelect(p)
    \/ \E p \in Procs : BorrowInsert(p)
    \/ \E p \in Procs : BorrowUpdate(p)
    \/ \E p \in Procs : ReturnSelect(p)
    \/ \E p \in Procs : ReturnUpdate(p)
    \/ \E p \in Procs : ReturnIncrement(p)
    \/ Tick

Spec == Init /\ [][Next]_vars

InitAuth ==
    /\ books = [b \in BookIds |-> 1]
    /\ borrows = <<>>
    /\ now = 0
    /\ req = [p \in Procs |-> Idle]
    /\ stock = books
    /\ secret \in Secrets
    /\ logins = {}
    /\ areq = NoAReq
    /\ students = <<FirstStudent>>
    /\ auto = 2
    /\ lreq = NoLReq
    /\ wreq = NoWReq
    /\ dash = NoDash

NextAuth ==
    \/ \E roles \in RoleSets, h \in Headers :
         Authenticate(roles, h) /\ UNCHANGED <<books, borrows, now, req, stock, cvars>>
    \/ \E route \in ProtectedRoutes, h \in Headers :
         Call(route, h) /\ UNCHANGED <<books, borrows, now, req, stock, cvars>>
    \/ Handle /\ UNCHANGED <<books, borrows, now, req, stock, cvars>>
    \/ \E u \in Usernames, pw \in Passwords :
         Login(u, pw) /\ UNCHANGED <<books, borrows, now, req, stock, cvars>>
    \/ Reply /\ UNCHANGED <<books, borrows, now, req, stock, cvars>>
    \/ Rotate /\ UNCHANGED <<books, borrows, now, req, stock, cvars>>

SpecAuth == InitAuth /\ [][NextAuth]_vars

\* The catalogue with the tables as two borrows and one return leave them.
InitCatalogue ==
    /\ books = [b \in BookIds |-> 1]
    /\ borrows = <<[student_id |-> 1, book_id |-> 1, return_date |-> <<>>],
                   [student_id |-> 1, book_id |-> 2, return_date |-> <<0>>]>>
    /\ now = 0
    /\ req = [p \in Procs |-> Idle]
    /\ stock = [b \in BookIds |-> IF b = 1 THEN 2 ELSE 1]
    /\ secret = "k1"
    /\ logins = {}
    /\ areq = NoAReq
    /\ students = <<FirstStudent>>
    /\ auto = 2
    /\ lreq = NoLReq
    /\ wreq = NoWReq
    /\ dash = NoDash

\* What no catalogue request touches.
ovars == <<borrows, now, req, stock, avars, dash>>

\* The list endpoints, while students and books are created and deleted.
NextList ==
    \/ \E e \in ListEndpoints, p \in QueryValues, l \in QueryValues :
         ListCount(e, [page |-> p, limit |-> l]) /\ UNCHANGED ovars
    \/ ListPage /\ UNCHANGED ovars
    \/ \E p \in QueryValues, l \in QueryValues :
         BooksListBasic([page |-> p, limit |-> l]) /\ UNCHANGED ovars
    \/ \E body \in CreateBodies : StudentCreate(body) /\ UNCHANGED ovars
    \/ \E id \in PathIds : StudentDelete(id) /\ UNCHANGED ovars
    \/ \E id \in PathIds : BookDelete(id) /\ UNCHANGED ovars
    \/ Deliver /\ UNCHANGED ovars

SpecList == InitCatalogue /\ [][NextList]_vars

\* The create, update and delete endpoints of students and books.
NextWrite ==
    \/ \E body \in CreateBodies : StudentCreate(body) /\ UNCHANGED ovars
    \/ \E id \in PathIds, body \in UpdateBodies :
         StudentUpdate(id, body) /\ UNCHANGED ovars
    \/ \E id \in PathIds : StudentDelete(id) /\ UNCHANGED ovars
    \/ \E id \in PathIds, q \in Quantities : BookUpdate(id, q) /\ UNCHANGED ovars
    \/ \E id \in PathIds : BookDelete(id) /\ UNCHANGED ovars
    \/ Deliver /\ UNCHANGED ovars

SpecWrite == InitCatalogue /\ [][NextWrite]_vars

\* The dashboard, while NumWriters borrow and return requests run.
Writers == 1..NumWriters
InitDash ==
    /\ books = [b \in BookIds |-> 1]
    /\ borrows = <<>>
    /\ now = 0
    /\ req = [p \in Procs |-> Idle]
    /\ stock = books
    /\ secret = "k1"
    /\ logins = {}
    /\ areq = NoAReq
    /\ students = <<FirstStudent>>
    /\ auto = 2
    /\ lreq = NoLReq
    /\ wreq = NoWReq
    /\ dash = NoDash

NextDash ==
    \/ \E p \in Writers : BorrowSelect(p)
    \/ \E p \in Writers : BorrowInsert(p)
    \/ \E p \in Writers : BorrowUpdate(p)
    \/ \E p \in Writers : ReturnSelect(p)
    \/ \E p \in Writers : ReturnUpdate(p)
    \/ \E p \in Writers : ReturnIncrement(p)
    \/ Tick
    \/ DashboardCount

SpecDash == InitDash /\ [][NextDash]_vars

\* ------------------------------------------------------------ properties
\* The requests that have answered, and their outcomes.
Answered(p, status) == Done(p) /\ req[p].resp.status = status
Quiescent == \A p \in Procs : ~InFlight(p)
NoneAborted == \A p \in Procs : ~req[p].aborted
Arrivals == {p \in Procs : Arrived(p)}

\* The borrow rows of book b with return_date NULL.
ActiveRows(b) == {i \in DOMAIN borrows :
                    borrows[i].book_id = b /\ borrows[i].return_date = <<>>}
Min(a, b) == IF a <= b THEN a ELSE b

\* C1: every book's quantity is >= 0 in every reachable state, under any
\* interleaving of Borrow and Return requests.
C1_QuantityNonNegative == \A b \in DOMAIN books : books[b] >= 0

\* C2: stock conservation: when no request is in flight and none was aborted
\* midway, each book's active borrow rows plus its quantity equal its original
\* stock.
C2_StockConservation ==
    (Quiescent /\ NoneAborted) =>
        \A b \in DOMAIN books : Cardinality(ActiveRows(b)) + books[b] = stock[b]

\* C3: when the k requests of a run are all borrows of one book of quantity q,
\* all answered by the store, exactly min(k, q) succeed and the others are
\* answered "out of stock"; and a book never has more active borrow rows than
\* its original stock.
C3_ConcurrentBorrows ==
    /\ \A b \in DOMAIN books : Cardinality(ActiveRows(b)) <= stock[b]
    /\ \A b \in DOMAIN books :
         (/\ Quiescent
          /\ \A p \in Arrivals : /\ req[p].op = "borrow"
                                 /\ req[p].book_id = b
                                 /\ req[p].resp.status # 500)
         => /\ Cardinality({p \in Arrivals : Answered(p, 200)})
                 = Min(Cardinality(Arrivals), stock[b])
            /\ \A p \in Arrivals :
                 ~Answered(p, 200) =>
                     req[p].resp = Resp(400, "message", "Book is out of stock")

\* p's handler runs its first statement in this step (the request arrives).
Arrives(p, op) == ~Arrived(p) /\ req'[p].op = op
\* ... and the store answers that statement.
StoreAnswers(p) == req'[p].resp.status # 500
Unwritten == books' = books /\ borrows' = borrows

\* C4: a Borrow whose stock read finds quantity <= 0 is answered 400 "Book is out
\* of stock" and ends without a write; a Borrow of a book id with no row is
\* answered 404 and ends without a write.
C4_OutOfStockNoWrite ==
    [][\A p \in Procs :
         (Arrives(p, "borrow") /\ StoreAnswers(p)) =>
            LET b == req'[p].book_id IN
            /\ (b \in DOMAIN books /\ books[b] <= 0) =>
                  /\ req'[p].pc = "done"
                  /\ req'[p].resp = Resp(400, "message", "Book is out of stock")
                  /\ Unwritten
            /\ b \notin DOMAIN books =>
                  /\ req'[p].pc = "done"
                  /\ req'[p].resp = Resp(404, "message", "Book not found")
                  /\ Unwritten]_vars

\* C4's case: one borrow was refused for an empty stock, another for a missing book.
C4_Witness ==
    /\ \E p \in Procs : /\ req[p].op = "borrow"
                        /\ req[p].book_id \in DOMAIN books
                        /\ Answered(p, 400)
    /\ \E p \in Procs : /\ req[p].op = "borrow"
                        /\ req[p].book_id \notin DOMAIN books
                        /\ Answered(p, 404)

\* Request p touches book b: it borrows b, or returns a borrow row of b.
Touches(p, b) ==
    \/ req[p].op = "borrow" /\ req[p].book_id = b
    \/ /\ req[p].op = "return"
       /\ req[p].id \in DOMAIN borrows
       /\ borrows[req[p].id].book_id = b

\* Borrow p of book b succeeded, Return r of the row it created succeeded, and no
\* other request touched b.
RoundTrip(p, r, b) ==
    /\ p # r
    /\ req[p].op = "borrow" /\ req[p].book_id = b /\ Answered(p, 200)
    /\ req[r].op = "return" /\ Answered(r, 200)
    /\ req[r].id \in DOMAIN borrows /\ borrows[req[r].id].book_id = b
    /\ \A o \in Procs \ {p, r} : ~Touches(o, b)

\* C5: after a successful Borrow of a book followed by a successful Return of the
\* row it created, with no other request touching the book, the book's quantity
\* is its pre-borrow quantity and the row's return_date is not NULL.
C5_BorrowReturnRoundTrip ==
    \A p \in Procs, r \in Procs, b \in DOMAIN books :
        RoundTrip(p, r, b) =>
            /\ books[b] = stock[b]
            /\ borrows[req[r].id].return_date # <<>>

\* C5's case: a round trip has completed while another request was served.
C5_Witness ==
    \E p \in Procs, r \in Procs, b \in DOMAIN books :
        /\ RoundTrip(p, r, b)
        /\ \E o \in Procs \ {p, r} : Done(o)

\* C6: a Return whose id matches no row, or a row whose return_date is already
\* set, is answered 400 "Borrow record not found or already returned" and leaves
\* every borrow row and every quantity as they were.
C6_ReturnRejectedNoMutation ==
    [][\A p \in Procs :
         (/\ Arrives(p, "return")
          /\ \/ req'[p].id \notin DOMAIN borrows
             \/ borrows[req'[p].id].return_date # <<>>)
         => /\ req'[p].pc = "done"
            /\ Unwritten
            /\ StoreAnswers(p) =>
                 req'[p].resp = Resp(400, "message",
                                     "Borrow record not found or already returned")]_vars

\* C6's case: a return named a row that had already been returned, and was refused.
C6_Witness ==
    \E p \in Procs : /\ req[p].op = "return" /\ Answered(p, 400)
                      /\ req[p].id \in DOMAIN borrows
                      /\ borrows[req[p].id].return_date # <<>>

\* C7: a borrow row is created active, its return_date is written once, from NULL
\* to a timestamp, and never again; no row is ever deleted.
C7_ReturnedIsTerminal ==
    [][/\ Len(borrows') >= Len(borrows)
       /\ \A i \in DOMAIN borrows :
            /\ borrows[i].return_date # <<>> => borrows'[i] = borrows[i]
            /\ borrows'[i].student_id = borrows[i].student_id
            /\ borrows'[i].book_id = borrows[i].book_id
       /\ \A i \in DOMAIN borrows' \ DOMAIN borrows :
            borrows'[i].return_date = <<>>]_vars

\* The authenticator ran on the request: auth(roles) applied directly, or as the
\* middleware of a guarded route.
Authenticated == areq.kind = "auth" \/ (areq.kind = "route" /\ areq.route.guard # <<>>)
\* The token segment of a header: what follows its first space, up to the next.
TokenSegment(h) ==
    LET parts == Split(h.value) IN IF Len(parts) >= 2 THEN parts[2] ELSE <<>>
\* The segment is one token whose MAC is that of its payload under the secret.
Verifies(seg) ==
    /\ Len(seg) = 1 /\ seg[1].t = "jwt"
    /\ secret # ""
    /\ seg[1].jwt.mac = Mac(secret, seg[1].jwt.payload)

\* C8: the authenticator answers 401 to a missing header and to a header with no
\* token segment, 403 with the error detail to a token that fails verification,
\* 403 naming the role and the required set to a verified token whose role is not
\* in a non-empty required set, and otherwise sets req.user to the decoded
\* payload and calls next(); it does exactly one of the two, and never calls
\* next() without req.user.
C8_AuthenticatorOutcome ==
    Authenticated =>
        LET h == areq.header
            seg == TokenSegment(h)
            mw == areq.mw
        IN  /\ mw.next # (mw.resp.status # 0)
            /\ mw.next => mw.user # <<>>
            /\ areq.stage = "handler" \/ areq.queries > 0 => mw.next
            /\ CASE ~h.present ->
                      mw.resp.status = 401 /\ ~mw.next
                 [] h.present /\ seg = <<>> ->
                      mw.resp.status = 401 /\ ~mw.next
                 [] h.present /\ seg # <<>> /\ ~Verifies(seg) ->
                      mw.resp.status = 403 /\ mw.resp.error # "" /\ ~mw.next
                 [] h.present /\ seg # <<>> /\ Verifies(seg)
                      /\ areq.roles # <<>>
                      /\ ~Includes(areq.roles, seg[1].jwt.payload.role) ->
                      /\ mw.resp.status = 403 /\ ~mw.next
                      /\ mw.resp.role = seg[1].jwt.payload.role
                      /\ mw.resp.required = areq.roles
                 [] OTHER ->
                      /\ mw.next /\ mw.resp = NoAResp
                      /\ mw.user = <<seg[1].jwt.payload>>

\* C8's case: a verified token of role admin was refused by auth(["liberian"]).
C8_Witness ==
    /\ Authenticated
    /\ areq.roles = <<"liberian">>
    /\ Verifies(TokenSegment(areq.header))
    /\ areq.mw.resp.status = 403 /\ areq.mw.resp.role = "admin"

\* C9: on every endpoint other than the login, a request with no Authorization
\* header is answered 401 and one whose verified token has a role other than
\* liberian is answered 403, and in both cases no store query is issued.
C9_ProtectedEndpoints ==
    areq.kind = "route" =>
        LET seg == TokenSegment(areq.header) IN
        /\ ~areq.header.present =>
              areq.stage = "done" /\ areq.resp.status = 401 /\ areq.queries = 0
        /\ (/\ areq.header.present
            /\ Verifies(seg)
            /\ seg[1].jwt.payload.role # "liberian") =>
              areq.stage = "done" /\ areq.resp.status = 403 /\ areq.queries = 0

\* The {id, role} stored for a user.
Stored(username) == [id |-> Users[username].id, role |-> Users[username].role]
ValidLogin(username, password) ==
    /\ username \in DOMAIN Users
    /\ password.present
    /\ BcryptCompare(password.value, Users[username].password)

\* C10: a token is issued to valid logins only; presented to the authenticator
\* under the secret it was signed with, it decodes to the {id, role} stored for
\* the user, and under another secret it is refused 403; a login with an unknown
\* username or a wrong password is answered 401 (the store having answered) and
\* issues no token.
C10_LoginTokenRoundTrip ==
    /\ \A l \in logins : ValidLogin(l.username, l.password)
    /\ areq.kind = "login" =>
         IF ValidLogin(areq.username, areq.password)
         THEN areq.resp.status = 200 =>
                 /\ areq.resp.token =
                      <<JwtSign(Stored(areq.username), secret)>>
                 /\ \E l \in logins : /\ l.username = areq.username
                                      /\ l.token = areq.resp.token[1]
         ELSE /\ areq.resp.token = <<>>
              /\ (areq.username \notin DOMAIN Users \/ areq.password.present)
                   /\ areq.resp.error # StoreError => areq.resp.status = 401
    /\ Authenticated =>
         \A l \in logins :
            TokenSegment(areq.header) = <<J(l.token)>> =>
               IF l.token.mac.key = secret
               THEN /\ areq.mw.next => areq.mw.user = <<Stored(l.username)>>
                    /\ ~areq.mw.next =>
                          /\ areq.mw.resp.status = 403
                          /\ areq.mw.resp.role = Stored(l.username).role
                    /\ areq.mw.next =
                          (areq.roles = <<>>
                             \/ Includes(areq.roles, Stored(l.username).role))
               ELSE /\ ~areq.mw.next
                    /\ areq.mw.resp.status = 403
                    /\ areq.mw.resp.message = "Invalid token"

\* C10's case: after a rotation of the secret, a client that still holds a token
\* of the old secret presents one of the new secret, and it is accepted.
C10_Witness ==
    /\ Authenticated
    /\ areq.mw.next
    /\ \E l \in logins : TokenSegment(areq.header) = <<J(l.token)>>
    /\ \E l \in logins : l.token.mac.key # secret

\* ------------------------------------------------------------ lists
\* The list request has ended (answered or not) and no store failure struck it.
ListEnded == lreq.pc \in {"done", "rejected"}
ListRows(endpoint) == IF endpoint = "books_basic" THEN BookRows ELSE Rows(endpoint)
\* n = ceil(t / l), for l # 0.
IsCeil(n, t, l) ==
    IF l > 0 THEN (n - 1) * l < t /\ t <= n * l
    ELSE (n - 1) * l > t /\ t >= n * l

\* C11: every list request that the store serves is answered with totalPages =
\* ceil(total/limit) and at most limit items: the rows of the list from offset
\* (page-1)*limit on.
C11_ListPagination ==
    (ListEnded /\ ~lreq.failed) =>
        /\ lreq.resp.status = 200
        /\ lreq.resp.kind = "object"
        /\ LET p == lreq.resp.page[1]
               rows == lreq.resp.rows
               all == ListRows(lreq.endpoint)
               offset == (p.currentPage - 1) * p.limit
           IN  /\ IsCeil(p.totalPages, p.total, p.limit)
               /\ Len(rows) <= p.limit
               /\ \A i \in DOMAIN rows :
                    offset + i \in DOMAIN all /\ rows[i] = all[offset + i]
               /\ Len(rows) = p.limit \/ offset + Len(rows) >= Len(all)

\* The parameter is a numeral: an optional sign and digits, nothing else.
Numeral(x) ==
    /\ x.present
    /\ LET s == x.value
           d == IF s # <<>> /\ s[1] = "-" THEN Tail(s) ELSE s
       IN  d # <<>> /\ \A i \in DOMAIN d : d[i] \in DOMAIN Digit
\* The parameter is absent or starts with no number.
NonNumeric(x) == ParseInt(x) = NaN
\* The list request has computed its page, limit and offset.
Paginated == lreq.local # <<>>

\* C12 as stated: page is 1 and limit is 10 when the parameter is absent or not
\* numeric, and every numeral, zero and the negative ones included, is taken as
\* it is.
C12_NumeralsPassThrough ==
    Paginated =>
        LET q == lreq.query
            l == lreq.local[1]
        IN  /\ NonNumeric(q.page) => l.page = 1
            /\ NonNumeric(q.limit) => l.limit = 10
            /\ Numeral(q.page) => l.page = ParseInt(q.page)[1]
            /\ Numeral(q.limit) => l.limit = ParseInt(q.limit)[1]

\* The leading integer of the parameter is zero.
LeadingZero(x) == ParseInt(x) # NaN /\ ParseInt(x)[1] = 0

\* C12, amended: page is 1 and limit is 10 when the parameter is absent, starts
\* with no number, or starts with a zero number; every other parameter, the
\* negative ones included, gives its leading integer; offset is (page-1)*limit
\* and totalPages is ceil(total/limit).
C12_PaginationDefaults ==
    Paginated =>
        LET q == lreq.query
            l == lreq.local[1]
        IN  /\ l.page = IF NonNumeric(q.page) \/ LeadingZero(q.page) THEN 1
                        ELSE ParseInt(q.page)[1]
            /\ l.limit = IF NonNumeric(q.limit) \/ LeadingZero(q.limit) THEN 10
                         ELSE ParseInt(q.limit)[1]
            /\ l.offset = (l.page - 1) * l.limit
            /\ IsCeil(l.totalPages, l.total, l.limit)

\* C12's case: a zero limit became 10 and a negative page went through, into a
\* negative offset.
C12_Witness ==
    /\ Paginated
    /\ lreq.query.limit = Param(<<"0">>) /\ lreq.local[1].limit = 10
    /\ lreq.query.page = Param(<<"-", "1">>) /\ lreq.local[1].page = -1
    /\ lreq.local[1].offset = -20

\* C13: a request one of whose store queries failed is answered, with a JSON
\* object that carries a message or an error field and an error status.
C13_StoreFailureAnswered ==
    /\ (ListEnded /\ lreq.failed) =>
          /\ lreq.pc = "done"
          /\ lreq.resp.status >= 400
          /\ lreq.resp.field \in {"message", "error"}
    /\ wreq.failed =>
          /\ wreq.resp.status >= 400
          /\ wreq.resp.field \in {"message", "error"}

\* ------------------------------------------------------------ writes
\* This step serves a write request.
Writes == wreq.op = "none" /\ wreq'.op # "none"
\* No row of the table has the id of the path.
NoRow(table, id) ==
    IF table = "students"
    THEN \A i \in DOMAIN students : students[i].id # Number[id]
    ELSE Number[id] \notin DOMAIN books

\* C14: an update or a delete of a book or student id that matches no row is
\* answered 404 (the store having answered) and leaves every row of every table
\* as it was.
C14_MissingIdNotFound ==
    [][(/\ Writes
        /\ wreq'.op \in {"update", "delete"}
        /\ NoRow(wreq'.table, wreq'.id))
       => /\ students' = students /\ books' = books /\ borrows' = borrows
          /\ ~wreq'.failed => wreq'.resp.status = 404]_vars

\* ------------------------------------------------------------ partial failure
\* The requests that stopped between their two writes: the borrows of book b
\* that inserted their row and did not decrease the quantity, and the returns
\* of a row of book b that set return_date and did not increase the quantity.
AbortedBorrows(b) ==
    {p \in Procs : req[p].op = "borrow" /\ req[p].aborted /\ req[p].book_id = b}
AbortedReturns(b) ==
    {p \in Procs : /\ req[p].op = "return" /\ req[p].aborted
                   /\ borrows[req[p].id].book_id = b}
\* The returns of row i that found it active.
PassedReturns(i) ==
    {p \in Procs : /\ req[p].op = "return" /\ req[p].id = i
                   /\ (Answered(p, 200) \/ req[p].aborted)}
\* No row was found active by two returns (the race of C16).
SingleReturns == \A i \in DOMAIN borrows : Cardinality(PassedReturns(i)) <= 1

\* In a state at rest, each borrow that failed between its writes leaves the
\* book with one unit too many, and each return that failed between its writes
\* with one too few; such a request was answered 500.
Accounting ==
    /\ \A p \in Procs : req[p].aborted => Answered(p, 500)
    /\ (Quiescent /\ SingleReturns) =>
          \A b \in DOMAIN books :
             Cardinality(ActiveRows(b)) + books[b]
                = stock[b] + Cardinality(AbortedBorrows(b))
                           - Cardinality(AbortedReturns(b))

\* C15: Borrow and Return are not atomic.  A Borrow that fails after its insert
\* is answered 500 and its row stays, so that active rows + quantity exceed the
\* stock by one; a Return that fails after setting return_date is answered 500
\* and active rows + quantity fall short by one; and a Return gets past its
\* select only for a row it finds active, so that no Return repeated after the
\* failure gives the unit back.
C15_NotAtomic ==
    /\ Accounting
    /\ \A p \in Procs :
         (req[p].op = "return" /\ req[p].pc \in {"r_update", "r_incr"}) =>
            /\ req[p].rows # <<>>
            /\ req[p].rows[1].return_date = <<>>

\* C15's case: one book has a unit too many after a failed borrow, the other a
\* unit too few after a failed return.
C15_Witness ==
    /\ Quiescent
    /\ \E b \in DOMAIN books :
         /\ AbortedBorrows(b) # {}
         /\ Cardinality(ActiveRows(b)) + books[b] = stock[b] + 1
    /\ \E b \in DOMAIN books :
         /\ AbortedReturns(b) # {}
         /\ Cardinality(ActiveRows(b)) + books[b] = stock[b] - 1

\* C16: of the Return requests for one borrow row, under any interleaving, at
\* most one is answered 200; hence, once the requests have ended and none has
\* failed between its writes, no quantity exceeds the book's original stock.
C16_SingleReturn ==
    /\ \A i \in DOMAIN borrows :
         Cardinality({p \in Procs : /\ req[p].op = "return" /\ req[p].id = i
                                    /\ Answered(p, 200)}) <= 1
    /\ (Quiescent /\ NoneAborted) => \A b \in DOMAIN books : books[b] <= stock[b]

\* ------------------------------------------------------------ dashboard
\* The dashboard answered with its five counts.
DashAnswered == dash.status = 200

\* C17: the dashboard handler writes to no table; when it has found the tables
\* as they were at its first query throughout, its counts satisfy total_borrows =
\* borrowed_not_returned + returned.
C17_DashboardConsistency ==
    [][/\ dash' # dash =>
            books' = books /\ borrows' = borrows /\ students' = students
       /\ (DashAnswered /\ dash.quiet)' =>
            dash'.counts[3] = dash'.counts[4] + dash'.counts[5]]_vars

\* C17's case: borrows and returns ran between the count queries, and the
\* dashboard answered with counts that do not add up.
C17_Witness ==
    /\ DashAnswered
    /\ ~dash.quiet
    /\ dash.counts[3] # dash.counts[4] + dash.counts[5]

====
